---- MODULE Spec2Model ----
(***************************************************************************)
(* Password-strength console: the debounced analysis pipeline, the        *)
(* generation action and the terminal log of the two UI variants          *)
(*   "full"  = src/unnamed/part_000                                        *)
(*   "basic" = src/frontend/src/components/PasswordStrengthUI.jsx          *)
(*                                                                         *)
(* JavaScript values: a string is a sequence of one-character strings, a  *)
(* possibly-undefined value v is <<v>> and undefined is <<>>.  A log line *)
(* is the sequence of the fragments its template literal concatenates.    *)
(***************************************************************************)
EXTENDS Integers, Sequences, FiniteSets, TLC

VARIABLES
    variant,        \* which of the two components is running
    mounted,        \* the component is in the tree (React keeps its state)
    password,       \* useState("")
    strength,       \* useState({ score: 0, feedback: [] })
    generated,      \* useState("")
    showPassword,   \* useState(false)
    terminalLines,  \* useState([])
    isAnalyzing,    \* useState(false)
    timers,         \* the scheduler's live setTimeout entries
    timer,          \* the handle held by the debounce effect's cleanup
    calls,          \* /api/check requests in flight
    gens,           \* /api/generate requests in flight
    issued,         \* history: every /api/check request ever issued
    cancelled,      \* history: handles cleared while still pending
    fired,          \* history: handles whose callback ran
    burst,          \* history: the current burst of password changes
    budget,         \* history: user actions taken so far
    last,           \* history: the step taken last
    activeTab,      \* useState("analyzer"), full variant
    selectedArticle, \* useState(null), full variant: 0 is null
    attackData,     \* useState([]), full variant
    globalStats,    \* useState({ attacksToday: 0, ... }), full variant
    liveChecks,     \* useState([]), full variant
    ticks,          \* how often each interval callback has run
    intervals,      \* the scheduler's live setInterval entries
    basicCore,      \* PasswordStrengthUI.jsx run on the same events: its core state
    twinLines,      \* the log of a second run, its texts of the same lengths
    probe           \* arguments and results of the pure functions applied

vars == <<variant, mounted, password, strength, generated, showPassword,
          terminalLines, isAnalyzing, timers, timer, calls, gens, issued,
          cancelled, fired, burst, budget, last, activeTab, selectedArticle,
          attackData, globalStats, liveChecks, ticks, intervals, basicCore, twinLines, probe>>

\* the password console proper
consoleVars == <<variant, mounted, password, strength, generated, showPassword,
                 terminalLines, isAnalyzing, timers, timer, calls, gens, issued,
                 cancelled, fired, burst>>

uiVars == <<activeTab, selectedArticle>>

telemetryVars == <<attackData, globalStats, liveChecks, ticks>>

----------------------------------------------------------------------------
(* Bounds of the exploration *)

\* user actions (edits of the field, clicks) in one run
MaxUserActions == 2

\* interval callbacks of the telemetry simulators in one run
MaxTicks == 11

\* the scores and the password lengths the pure functions are applied to
MaxProbeScore == 6
MaxProbeLen == 16

(* Program constants *)

DebounceMs == 500

\* setInterval periods of the three simulators
StatsIntervalMs == 3000
AttackIntervalMs == 2000
LiveIntervalMs == 4000

\* .slice(0, 10) and .slice(0, 5)
AttackCapacity == 10
LiveCapacity == 5

\* the clock advances in half debounce periods
Quantum == DebounceMs \div 2

----------------------------------------------------------------------------
(* JavaScript values *)

Undefined == <<>>
Some(v) == <<v>>
Min(a, b) == IF a < b THEN a ELSE b
Range(s) == {s[i] : i \in DOMAIN s}

\* if (x) on a string or on a possibly-undefined string
Truthy(s) == s # <<>>
TruthyField(f) == f # Undefined /\ f[1] # ""

\* `${x}` of a possibly-undefined number or string
NumberText(f) == IF f = Undefined THEN "undefined" ELSE ToString(f[1])
StringText(f) == IF f = Undefined THEN "undefined" ELSE f[1]

Bullet == "*"

RECURSIVE Repeat(_, _)
Repeat(c, n) == IF n <= 0 THEN <<>> ELSE <<c>> \o Repeat(c, n - 1)

UpperCase == <<"A","B","C","D","E","F","G","H","I","J","K","L","M",
               "N","O","P","Q","R","S","T","U","V","W","X","Y","Z">>
LowerCase == <<"a","b","c","d","e","f","g","h","i","j","k","l","m",
               "n","o","p","q","r","s","t","u","v","w","x","y","z">>

LowerChar(c) ==
    IF \E i \in DOMAIN UpperCase : UpperCase[i] = c
    THEN LowerCase[CHOOSE i \in DOMAIN UpperCase : UpperCase[i] = c]
    ELSE c

toLowerCase(s) == [i \in DOMAIN s |-> LowerChar(s[i])]

includes(s, w) ==
    \E k \in 0..(Len(s) - Len(w)) : SubSeq(s, k + 1, k + Len(w)) = w

----------------------------------------------------------------------------
(* Static tables *)

strengthLabels == <<"CRITICAL", "WEAK", "FAIR", "STRONG", "PERFECT">>

weakPasswordDatabase ==
    { <<"p","a","s","s","w","o","r","d">>,
      <<"1","2","3","4","5","6">>,
      <<"p","a","s","s","w","o","r","d","1","2","3">>,
      <<"a","d","m","i","n">>,
      <<"q","w","e","r","t","y">>,
      <<"l","e","t","m","e","i","n">>,
      <<"w","e","l","c","o","m","e">>,
      <<"m","o","n","k","e","y">>,
      <<"d","r","a","g","o","n">>,
      <<"m","a","s","t","e","r">>,
      <<"s","u","p","e","r","m","a","n">>,
      <<"b","a","t","m","a","n">> }

----------------------------------------------------------------------------
(* Inputs *)

Variants == {"full", "basic"}

\* what the user can have in the input field
TypedTexts ==
    { <<>>,
      <<"a">>,
      <<"A","d","m","i","n","1">> }

GeneratedText == <<"X","k","9","#","m","Q","2","v","L","p","!","7">>

FourSuggestions == <<"add symbols", "add digits", "make it longer", "avoid names">>

NoBody == [error |-> Undefined, score |-> Undefined, strength |-> Undefined,
           suggestions |-> Undefined, password |-> Undefined]

\* decoded bodies of POST /api/check
CheckBodies ==
    { [NoBody EXCEPT !.score = Some(4), !.strength = Some("PERFECT"),
                     !.suggestions = Some(<<>>)],
      [NoBody EXCEPT !.score = Some(1), !.strength = Some("WEAK"),
                     !.suggestions = Some(FourSuggestions)],
      [NoBody EXCEPT !.score = Some(5), !.strength = Some("PERFECT"),
                     !.suggestions = Some(<<"rotate it">>)],
      [NoBody EXCEPT !.score = Some(2), !.strength = Some("FAIR")],
      [NoBody EXCEPT !.error = Some("rate limited")] }

\* decoded bodies of GET /api/generate
GenerateBodies ==
    { [NoBody EXCEPT !.password = Some(GeneratedText)],
      [NoBody EXCEPT !.password = Some(<<"a">>)],
      NoBody,
      [NoBody EXCEPT !.error = Some("generator offline")] }

\* how a call can end: one of its two awaits (fetch, response.json()) rejects
\* with an Error, or a body is decoded
CheckOutcomes ==
    { [kind |-> "reject", message |-> "Failed to fetch", data |-> NoBody] }
    \cup { [kind |-> "json", message |-> "", data |-> d] : d \in CheckBodies }

GenerateOutcomes ==
    { [kind |-> "reject", message |-> "Failed to fetch", data |-> NoBody] }
    \cup { [kind |-> "json", message |-> "", data |-> d] : d \in GenerateBodies }

NoOutcome == [kind |-> "none", message |-> "", data |-> NoBody]

----------------------------------------------------------------------------
(* Pure functions of the component *)

calculateCrackTimeInclusive(pwd) ==
    IF ~Truthy(pwd) THEN "Instant"
    ELSE IF Len(pwd) <= 6 THEN "< 1 second"
    ELSE IF Len(pwd) <= 8 THEN "< 1 minute"
    ELSE IF Len(pwd) <= 10 THEN "< 1 hour"
    ELSE IF Len(pwd) <= 12 THEN "< 1 day"
    ELSE IF Len(pwd) <= 14 THEN "< 1 year"
    ELSE "> 100 years"
calculateCrackTime(pwd) ==
    IF ~Truthy(pwd) THEN "Instant"
    ELSE IF Len(pwd) < 6 THEN "< 1 second"
    ELSE IF Len(pwd) < 8 THEN "< 1 minute"
    ELSE IF Len(pwd) < 10 THEN "< 1 hour"
    ELSE IF Len(pwd) < 12 THEN "< 1 day"
    ELSE IF Len(pwd) < 14 THEN "< 1 year"
    ELSE "> 100 years"

\* weak.toLowerCase(), for every entry of the catalog
weakLowered == {toLowerCase(weak) : weak \in weakPasswordDatabase}

isWeakCaseSensitive(pwd) ==
    \E weak \in weakPasswordDatabase : includes(pwd, weak)
isWeak(pwd) ==
    LET lowered == toLowerCase(pwd)
    IN  \E weak \in weakLowered : includes(lowered, weak)

isSecure == strength.score # Undefined /\ strength.score[1] >= 3

\* strengthLabels[score] || "CRITICAL": a JavaScript array is indexed from 0
LabelOfOneBased(score) ==
    IF score # Undefined /\ score[1] \in 1..Len(strengthLabels)
    THEN strengthLabels[score[1]]
    ELSE "CRITICAL"
LabelOf(score) ==
    IF score # Undefined /\ score[1] \in 0..(Len(strengthLabels) - 1)
    THEN strengthLabels[score[1] + 1]
    ELSE "CRITICAL"

currentStrength == LabelOf(strength.score)

\* one application of the pure functions
Probe(score, pwd) ==
    [score |-> score, label |-> LabelOf(score),
     pwd |-> pwd, crackTime |-> calculateCrackTime(pwd), weak |-> isWeak(pwd)]

EmptyStrength == [score |-> Some(0), feedback |-> <<>>]

\* if (data.error)
HasErrorNever(data) == FALSE
HasError(data) == TruthyField(data.error)

\* { score: data.score, feedback: data.suggestions || [] }
StrengthOfClamped(data) ==
    [score |-> IF data.score = Undefined THEN Undefined
               ELSE Some(Min(4, IF data.score[1] < 0 THEN 0 ELSE data.score[1])),
     feedback |-> IF data.suggestions = Undefined THEN <<>> ELSE data.suggestions[1]]
StrengthOfNoFeedback(data) == [score |-> data.score, feedback |-> <<>>]
StrengthOf(data) ==
    [score |-> data.score,
     feedback |-> IF data.suggestions = Undefined THEN <<>> ELSE data.suggestions[1]]

----------------------------------------------------------------------------
(* Terminal lines *)

AnalyzingLineEchoes(pwd) == <<"$ ANALYZING: ">> \o pwd
AnalyzingLine(pwd) ==
    IF variant = "full"
    THEN <<"$ ANALYZING: ">> \o (IF Truthy(pwd) THEN Repeat(Bullet, Len(pwd)) ELSE <<"EMPTY">>)
    ELSE <<"$ ANALYZING PASSWORD: ", IF Truthy(pwd) THEN "****" ELSE "EMPTY",
           " -> CONNECTED TO BACKEND">>

WarningLines(pwd) ==
    IF variant = "full" /\ isWeak(pwd)
    THEN << <<"WARNING: Password found in breach database!">> >>
    ELSE <<>>

AnalysisFailedLine(data) == <<"ANALYSIS FAILED: ", StringText(data.error)>>

ConnectionFailedLine(message) == <<"CONNECTION FAILED: ", message>>

\* ...data.suggestions.slice(0, 3).map(s => ...)
SuggestionLinesAll(data) ==
    LET s == data.suggestions[1]
    IN  [i \in DOMAIN s |->
            <<IF variant = "full" THEN "-> " ELSE "$ RECOMMENDATION: ", s[i]>>]
SuggestionLines(data) ==
    LET s == data.suggestions[1]
        shown == SubSeq(s, 1, Min(3, Len(s)))
    IN  [i \in DOMAIN shown |->
            <<IF variant = "full" THEN "-> " ELSE "$ RECOMMENDATION: ", shown[i]>>]

CompleteLines(pwd, data) ==
    LET head == <<"ANALYSIS COMPLETE: ", StringText(data.strength), " (",
                  NumberText(data.score), "/4)">>
    IN  IF variant = "full"
        THEN << head,
                <<"Crack Time: ", calculateCrackTime(pwd)>>,
                <<"Protection Level: ",
                  IF data.score # Undefined /\ data.score[1] >= 3
                  THEN "SECURE" ELSE "VULNERABLE">> >>
             \o SuggestionLines(data)
        ELSE << head, <<"$ THREAT LEVEL: ", StringText(data.strength)>> >>
             \o SuggestionLines(data)

ClearedLines ==
    IF variant = "basic" THEN << <<"$ PASSWORD CLEARED">> >> ELSE <<>>

\* the effect on [showPassword, password] of the basic variant
VisibilityLinesBoth(pwd, show) ==
    IF Truthy(pwd)
    THEN << <<"$ VISIBILITY: ", IF show THEN "ENABLED" ELSE "ENCRYPTED">> >>
    ELSE <<>>
VisibilityLines(pwd, show) ==
    IF variant = "basic" /\ Truthy(pwd)
    THEN << <<"$ VISIBILITY: ", IF show THEN "ENABLED" ELSE "ENCRYPTED">> >>
    ELSE <<>>

GeneratingLine ==
    IF variant = "full" THEN <<"$ GENERATING QUANTUM-SAFE PASSWORD...">>
    ELSE <<"$ GENERATING PASSWORD: CONNECTING TO BACKEND">>

GenerationFailedLine(text) == <<"GENERATION FAILED: ", text>>

\* (n * 6.5).toFixed(1), n a length
ToFixed1(n) == <<ToString((n * 65) \div 10), ".", ToString((n * 65) % 10)>>

GeneratedLines(pass) ==
    IF variant = "full"
    THEN << <<"PASSWORD GENERATED">>,
            <<"Length: ", ToString(Len(pass)), " characters">>,
            <<"Entropy: ">> \o ToFixed1(Len(pass)) \o <<" bits">>,
            <<"Strength: MAXIMUM">> >>
    ELSE << <<"$ PASSWORD GENERATED: SUCCESS">>,
            <<"$ LENGTH: ", ToString(Len(pass))>>,
            <<"$ STRENGTH: ", IF Len(pass) >= 12 THEN "PERFECT" ELSE "STRONG">> >>

----------------------------------------------------------------------------
(* The debounce effect: useEffect(() => { const timer = setTimeout(f, 500);  *)
(* return () => clearTimeout(timer); }, [password])                          *)

Ids(ts) == {t.id : t \in ts}

\* setTimeout(f, 500): the callback may run once 500 ms have elapsed
TimerDueEarly(t) == t.elapsed >= Quantum
TimerDue(t) == t.elapsed >= DebounceMs

\* The event loop runs a callback that is due before it handles anything that
\* arrives later.
NoTimerDue == \A t \in timers : ~TimerDue(t)

\* clearTimeout(timer), the effect's cleanup
CleanupNothing(ts, h) == ts
Cleanup(ts, h) == {t \in ts : t.id # h}

\* the effect body: a callback closed over this render's password
ScheduleStale(ts, h, pwd) == ts \cup {[id |-> h, pwd |-> password, elapsed |-> 0]}
Schedule(ts, h, pwd) == ts \cup {[id |-> h, pwd |-> pwd, elapsed |-> 0]}

\* A re-render with a new password value: cleanup of the previous effect, then
\* the effect again.  React skips both when the value is the same.
RearmAlways(pwd) ==
    /\ timers' = Schedule(Cleanup(timers, timer), timer + 1, pwd)
    /\ timer' = timer + 1
    /\ cancelled' = cancelled \cup (Ids(timers) \ Ids(Cleanup(timers, timer)))
    /\ burst' = IF timers = {}
                THEN [changes |-> 1, calls |-> 0]
                ELSE [burst EXCEPT !.changes = @ + 1]
Rearm(pwd) ==
    IF pwd = password
    THEN UNCHANGED <<timers, timer, cancelled, burst>>
    ELSE /\ timers' = Schedule(Cleanup(timers, timer), timer + 1, pwd)
         /\ timer' = timer + 1
         /\ cancelled' = cancelled \cup (Ids(timers) \ Ids(Cleanup(timers, timer)))
         /\ burst' = IF timers = {}
                     THEN [changes |-> 1, calls |-> 0]
                     ELSE [burst EXCEPT !.changes = @ + 1]

\* the three effects with setInterval, in the full variant
Simulators == {"stats", "attack", "live"}

\* return () => clearInterval(interval), the cleanup of each of them
ClearIntervalsNone(is) == is
ClearIntervals(is) == {}

\* Unmounting runs the cleanup of every effect.
Unmount ==
    /\ mounted' = FALSE
    /\ intervals' = ClearIntervals(intervals)
    /\ timers' = Cleanup(timers, timer)
    /\ cancelled' = cancelled \cup (Ids(timers) \ Ids(Cleanup(timers, timer)))

\* what the state was before the step
Before == [strength |-> strength, terminalLines |-> terminalLines,
           isAnalyzing |-> isAnalyzing, issued |-> Len(issued),
           gens |-> Cardinality(gens)]

Step(op, pwd, out) ==
    last' = [op |-> op, pwd |-> pwd, out |-> out, before |-> Before]

----------------------------------------------------------------------------
(* The component of PasswordStrengthUI.jsx as a function of the events: its  *)
(* password, generated, strength and isAnalyzing, and the text its pending   *)
(* debounce callback closed over (pending; Undefined when none is pending)   *)

\* the useState initial values and the first render's debounce effect
BasicInit ==
    [mounted |-> TRUE, password |-> <<>>, generated |-> <<>>,
     strength |-> [score |-> Some(0), feedback |-> <<>>],
     isAnalyzing |-> FALSE, pending |-> Some(<<>>)]

\* no error boundary: the effects' cleanups run, the state is kept as it was
BasicUnmount(m) == [m EXCEPT !.mounted = FALSE, !.pending = Undefined]

\* setPassword(e.target.value) and the effect on [password]
BasicChange(m, pwd) ==
    IF ~m.mounted \/ pwd = m.password THEN m
    ELSE [m EXCEPT !.password = pwd, !.pending = Some(pwd)]

\* the debounce callback: if (password) checkPasswordStrength(password), which
\* sets isAnalyzing before its first await; else setStrength({ score: 0, ... })
BasicFireKeepsStrength(m) ==
    IF m.pending = Undefined THEN m
    ELSE IF Truthy(m.pending[1])
         THEN [m EXCEPT !.pending = Undefined, !.isAnalyzing = TRUE]
         ELSE [m EXCEPT !.pending = Undefined]
BasicFire(m) ==
    IF m.pending = Undefined THEN m
    ELSE IF Truthy(m.pending[1])
         THEN [m EXCEPT !.pending = Undefined, !.isAnalyzing = TRUE]
         ELSE [m EXCEPT !.pending = Undefined,
                        !.strength = [score |-> Some(0), feedback |-> <<>>]]

\* checkPasswordStrength after its awaits: catch, data.error, or setStrength
\* and the updater with data.suggestions.slice; finally setIsAnalyzing(false)
BasicCheckResponse(m, o) ==
    IF ~m.mounted THEN m
    ELSE IF o.kind # "json" THEN [m EXCEPT !.isAnalyzing = FALSE]
    ELSE IF TruthyField(o.data.error) THEN [m EXCEPT !.isAnalyzing = FALSE]
    ELSE IF o.data.suggestions = Undefined THEN BasicUnmount(m)
    ELSE [m EXCEPT !.strength = [score |-> o.data.score,
                                 feedback |-> o.data.suggestions[1]],
                   !.isAnalyzing = FALSE]

\* generateSecurePassword after its awaits: setGenerated(pass);
\* setPassword(pass); the updater with pass.length
BasicGenerateResponse(m, o) ==
    IF ~m.mounted THEN m
    ELSE IF o.kind # "json" THEN m
    ELSE IF TruthyField(o.data.error) THEN m
    ELSE IF o.data.password = Undefined THEN BasicUnmount(m)
    ELSE BasicChange([m EXCEPT !.generated = o.data.password[1]], o.data.password[1])

----------------------------------------------------------------------------
(* A second run of the same component: the same events and the same         *)
(* responses, every text in the field replaced by another one of the same   *)
(* length.  twinLines is its terminal log.                                  *)

Twin(pwd) == Repeat("x", Len(pwd))

\* the debounce callback of the second run
TwinFireLines(t) ==
    IF Truthy(t.pwd)
    THEN <<AnalyzingLine(Twin(t.pwd))>> \o WarningLines(Twin(t.pwd))
    ELSE ClearedLines

\* checkPasswordStrength of the second run after its awaits
TwinCheckLines(c, o) ==
    IF ~mounted THEN <<>>
    ELSE IF o.kind # "json" THEN <<ConnectionFailedLine(o.message)>>
    ELSE IF HasError(o.data) THEN <<AnalysisFailedLine(o.data)>>
    ELSE IF o.data.suggestions = Undefined THEN <<>>
    ELSE CompleteLines(Twin(c.pwd), o.data)

\* generateSecurePassword of the second run after its awaits; the response,
\* and with it the generated password, is the same in both runs
TwinGenerateLines(o) ==
    IF ~mounted THEN <<>>
    ELSE IF o.kind # "json" THEN <<GenerationFailedLine(o.message)>>
    ELSE IF HasError(o.data) THEN <<GenerationFailedLine(StringText(o.data.error))>>
    ELSE IF o.data.password = Undefined THEN <<>>
    ELSE GeneratedLines(o.data.password[1])
         \o (IF o.data.password[1] = password THEN <<>>
             ELSE VisibilityLines(o.data.password[1], showPassword))

----------------------------------------------------------------------------
(* State after construction and the first render's effects *)

Init ==
    /\ variant \in Variants
    /\ mounted = TRUE
    /\ password = <<>>
    /\ strength = EmptyStrength
    /\ generated = <<>>
    /\ showPassword = FALSE
    /\ terminalLines = <<>>
    /\ isAnalyzing = FALSE
    /\ timer = 1
    /\ timers = Schedule({}, 1, <<>>)
    /\ calls = {}
    /\ gens = {}
    /\ issued = <<>>
    /\ cancelled = {}
    /\ fired = {}
    /\ burst = [changes |-> 0, calls |-> 0]
    /\ budget = 0
    /\ last = [op |-> "mount", pwd |-> <<>>, out |-> NoOutcome, before |-> Before]
    /\ activeTab = "analyzer"
    /\ selectedArticle = 0
    /\ attackData = <<>>
    /\ globalStats = [attacksToday |-> 0, passwordsCompromised |-> 0,
                      activeThreats |-> 0, weakPasswords |-> 0]
    /\ liveChecks = <<>>
    /\ ticks = [attack |-> 0, stats |-> 0, live |-> 0]
    /\ intervals = IF variant = "full" THEN Simulators ELSE {}
    /\ basicCore = BasicInit
    /\ twinLines = <<>>
    /\ probe = Probe(Some(0), <<>>)

----------------------------------------------------------------------------
(* User actions *)

\* {activeTab === 'analyzer' && (...)}: the full variant renders the input, the
\* toggle and the buttons on the analyzer tab only
OnAnalyzer == variant = "basic" \/ activeTab = "analyzer"

\* onChange={(e) => setPassword(e.target.value)}
SetPassword(pwd) ==
    /\ twinLines' = twinLines \o VisibilityLines(Twin(pwd), showPassword)
    /\ basicCore' = BasicChange(basicCore, pwd)
    /\ mounted /\ NoTimerDue /\ OnAnalyzer
    /\ budget < MaxUserActions
    /\ pwd # password
    /\ password' = pwd
    /\ Rearm(pwd)
    /\ terminalLines' = terminalLines \o VisibilityLines(pwd, showPassword)
    /\ budget' = budget + 1
    /\ Step("change", pwd, NoOutcome)
    /\ UNCHANGED <<uiVars, telemetryVars, probe>>
    /\ UNCHANGED <<variant, mounted, intervals, strength, generated, showPassword,
                   isAnalyzing, calls, gens, issued, fired>>

\* onClick={() => setShowPassword(!showPassword)}
ToggleShow ==
    /\ twinLines' = twinLines \o VisibilityLines(Twin(password), ~showPassword)
    /\ UNCHANGED basicCore
    /\ mounted /\ NoTimerDue /\ OnAnalyzer
    /\ budget < MaxUserActions
    /\ showPassword' = ~showPassword
    /\ terminalLines' = terminalLines \o VisibilityLines(password, ~showPassword)
    /\ budget' = budget + 1
    /\ Step("toggle", password, NoOutcome)
    /\ UNCHANGED <<uiVars, telemetryVars, probe>>
    /\ UNCHANGED <<variant, mounted, intervals, password, strength, generated, isAnalyzing,
                   timers, timer, calls, gens, issued, cancelled, fired, burst>>

\* onClick={generateSecurePassword} disabled={isAnalyzing}: up to the first await
GenerateAnytime ==
    /\ twinLines' = Append(twinLines, GeneratingLine)
    /\ UNCHANGED basicCore
    /\ mounted /\ NoTimerDue /\ OnAnalyzer
    /\ budget < MaxUserActions
    /\ terminalLines' = Append(terminalLines, GeneratingLine)
    /\ gens' = gens \cup {budget + 1}
    /\ budget' = budget + 1
    /\ Step("generate", password, NoOutcome)
    /\ UNCHANGED <<uiVars, telemetryVars, probe>>
    /\ UNCHANGED <<variant, mounted, intervals, password, strength, generated, showPassword,
                   isAnalyzing, timers, timer, calls, issued, cancelled, fired, burst>>
Generate ==
    /\ twinLines' = Append(twinLines, GeneratingLine)
    /\ UNCHANGED basicCore
    /\ mounted /\ NoTimerDue /\ OnAnalyzer
    /\ ~isAnalyzing
    /\ budget < MaxUserActions
    /\ terminalLines' = Append(terminalLines, GeneratingLine)
    /\ gens' = gens \cup {budget + 1}
    /\ budget' = budget + 1
    /\ Step("generate", password, NoOutcome)
    /\ UNCHANGED <<uiVars, telemetryVars, probe>>
    /\ UNCHANGED <<variant, mounted, intervals, password, strength, generated, showPassword,
                   isAnalyzing, timers, timer, calls, issued, cancelled, fired, burst>>

----------------------------------------------------------------------------
(* Time and the debounce callback *)

Tick ==
    /\ UNCHANGED twinLines
    /\ UNCHANGED basicCore
    /\ timers # {} /\ NoTimerDue
    /\ timers' = {[t EXCEPT !.elapsed = Min(@ + Quantum, DebounceMs)] : t \in timers}
    /\ Step("tick", password, NoOutcome)
    /\ UNCHANGED <<uiVars, telemetryVars, probe>>
    /\ UNCHANGED <<variant, mounted, intervals, password, strength, generated, showPassword,
                   terminalLines, isAnalyzing, timer, calls, gens, issued,
                   cancelled, fired, burst, budget>>

\* checkPasswordStrength(pwd) up to its first await
StartCheckAborting(t) ==
    /\ isAnalyzing' = TRUE
    /\ terminalLines' = Append(terminalLines, AnalyzingLine(t.pwd)) \o WarningLines(t.pwd)
    /\ calls' = {[id |-> Len(issued) + 1, pwd |-> t.pwd]}
    /\ issued' = Append(issued, [pwd |-> t.pwd, at |-> t.elapsed, handle |-> t.id])
    /\ burst' = [burst EXCEPT !.calls = @ + 1]
    /\ UNCHANGED strength
StartCheckUnlessWeak(t) ==
    /\ isAnalyzing' = TRUE
    /\ terminalLines' = Append(terminalLines, AnalyzingLine(t.pwd)) \o WarningLines(t.pwd)
    /\ calls' = IF isWeak(t.pwd) THEN calls
                ELSE calls \cup {[id |-> Len(issued) + 1, pwd |-> t.pwd]}
    /\ issued' = Append(issued, [pwd |-> t.pwd, at |-> t.elapsed, handle |-> t.id])
    /\ burst' = [burst EXCEPT !.calls = @ + 1]
    /\ UNCHANGED strength
StartCheck(t) ==
    /\ isAnalyzing' = TRUE
    /\ terminalLines' = Append(terminalLines, AnalyzingLine(t.pwd)) \o WarningLines(t.pwd)
    /\ calls' = calls \cup {[id |-> Len(issued) + 1, pwd |-> t.pwd]}
    /\ issued' = Append(issued, [pwd |-> t.pwd, at |-> t.elapsed, handle |-> t.id])
    /\ burst' = [burst EXCEPT !.calls = @ + 1]
    /\ UNCHANGED strength

\* the else branch of the callback
ResetStrengthSkipped ==
    /\ terminalLines' = terminalLines \o ClearedLines
    /\ UNCHANGED <<strength, isAnalyzing, calls, issued, burst>>
ResetStrength ==
    /\ strength' = EmptyStrength
    /\ terminalLines' = terminalLines \o ClearedLines
    /\ UNCHANGED <<isAnalyzing, calls, issued, burst>>

\* () => { if (password) checkPasswordStrength(password); else ... }
FireAlwaysChecks(t) ==
    /\ twinLines' = twinLines \o TwinFireLines(t)
    /\ basicCore' = BasicFire(basicCore)
    /\ t \in timers /\ TimerDue(t)
    /\ timers' = timers \ {t}
    /\ fired' = fired \cup {t.id}
    /\ StartCheck(t)
    /\ Step("fire", t.pwd, NoOutcome)
    /\ UNCHANGED <<uiVars, telemetryVars, probe>>
    /\ UNCHANGED <<variant, mounted, intervals, password, generated, showPassword, timer,
                   gens, cancelled, budget>>
FireRearms(t) ==
    /\ twinLines' = twinLines \o TwinFireLines(t)
    /\ basicCore' = BasicFire(basicCore)
    /\ t \in timers /\ TimerDue(t)
    /\ timers' = (timers \ {t}) \cup {[t EXCEPT !.elapsed = 0]}
    /\ fired' = fired \cup {t.id}
    /\ IF Truthy(t.pwd) THEN StartCheck(t) ELSE ResetStrength
    /\ Step("fire", t.pwd, NoOutcome)
    /\ UNCHANGED <<uiVars, telemetryVars, probe>>
    /\ UNCHANGED <<variant, mounted, intervals, password, generated, showPassword, timer,
                   gens, cancelled, budget>>
Fire(t) ==
    /\ twinLines' = twinLines \o TwinFireLines(t)
    /\ basicCore' = BasicFire(basicCore)
    /\ t \in timers /\ TimerDue(t)
    /\ timers' = timers \ {t}
    /\ fired' = fired \cup {t.id}
    /\ IF Truthy(t.pwd) THEN StartCheck(t) ELSE ResetStrength
    /\ Step("fire", t.pwd, NoOutcome)
    /\ UNCHANGED <<uiVars, telemetryVars, probe>>
    /\ UNCHANGED <<variant, mounted, intervals, password, generated, showPassword, timer,
                   gens, cancelled, budget>>

----------------------------------------------------------------------------
(* checkPasswordStrength(pwd) after its awaits.  The continuation runs to   *)
(* its end, finally block included, in one task.                            *)

\* A state updater (prev => [...]) is not run by the setter: React runs it when
\* it renders, outside the function's try block.  The updaters of the success
\* paths read data.suggestions.slice and pass.length, which throw on undefined;
\* an error thrown while rendering unmounts the tree (App.jsx has no boundary).
CheckUpdaterThrows(data) == data.suggestions = Undefined
GenerateUpdaterThrows(data) == data.password = Undefined

\* finally { setIsAnalyzing(false) }
FinallyKeepsFlag == isAnalyzing
Finally == FALSE

\* the catch block
CheckCatchReplacing(message) ==
    /\ terminalLines' = <<ConnectionFailedLine(message)>>
    /\ isAnalyzing' = Finally
    /\ UNCHANGED <<mounted, intervals, strength, timers, cancelled>>
CheckCatch(message) ==
    /\ terminalLines' = Append(terminalLines, ConnectionFailedLine(message))
    /\ isAnalyzing' = Finally
    /\ UNCHANGED <<mounted, intervals, strength, timers, cancelled>>

\* if (data.error) { ...; return; }
CheckErrorResets(data) ==
    /\ terminalLines' = Append(terminalLines, AnalysisFailedLine(data))
    /\ isAnalyzing' = Finally
    /\ strength' = EmptyStrength
    /\ UNCHANGED <<mounted, intervals, timers, cancelled>>
CheckError(data) ==
    /\ terminalLines' = Append(terminalLines, AnalysisFailedLine(data))
    /\ isAnalyzing' = Finally
    /\ UNCHANGED <<mounted, intervals, strength, timers, cancelled>>

\* setStrength(...); setTerminalLines(prev => [...])
CheckSuccess(c, data) ==
    IF CheckUpdaterThrows(data)
    THEN /\ Unmount
         /\ UNCHANGED <<strength, terminalLines, isAnalyzing>>
    ELSE /\ strength' = StrengthOf(data)
         /\ terminalLines' = terminalLines \o CompleteLines(c.pwd, data)
         /\ isAnalyzing' = Finally
         /\ UNCHANGED <<mounted, intervals, timers, cancelled>>

CheckResponse(c, o) ==
    /\ twinLines' = twinLines \o TwinCheckLines(c, o)
    /\ basicCore' = BasicCheckResponse(basicCore, o)
    /\ c \in calls /\ NoTimerDue
    /\ calls' = calls \ {c}
    /\ IF ~mounted
       THEN UNCHANGED <<mounted, intervals, strength, terminalLines, isAnalyzing, timers, cancelled>>
       ELSE IF o.kind # "json" THEN CheckCatch(o.message)
       ELSE IF HasError(o.data) THEN CheckError(o.data)
       ELSE CheckSuccess(c, o.data)
    /\ Step("check_response", c.pwd, IF mounted THEN o ELSE NoOutcome)
    /\ UNCHANGED <<uiVars, telemetryVars, probe>>
    /\ UNCHANGED <<variant, password, generated, showPassword, timer, gens,
                   issued, fired, burst, budget>>

----------------------------------------------------------------------------
(* generateSecurePassword() after its awaits *)

GenerateFailed(text) ==
    /\ terminalLines' = Append(terminalLines, GenerationFailedLine(text))
    /\ UNCHANGED <<mounted, intervals, password, generated, timers, timer, cancelled, burst>>

\* setGenerated(pass); setPassword(pass); setTerminalLines(prev => [...])
GenerateSuccessKeepsFirst(data) ==
    IF GenerateUpdaterThrows(data)
    THEN /\ Unmount
         /\ UNCHANGED <<password, generated, terminalLines, timer, burst>>
    ELSE IF Truthy(generated)
    THEN UNCHANGED <<mounted, intervals, password, generated, terminalLines,
                     timers, timer, cancelled, burst>>
    ELSE LET pass == data.password[1]
         IN  /\ generated' = pass
             /\ password' = pass
             /\ Rearm(pass)
             /\ terminalLines' =
                    terminalLines \o GeneratedLines(pass)
                    \o (IF pass = password THEN <<>>
                        ELSE VisibilityLines(pass, showPassword))
             /\ UNCHANGED <<mounted, intervals>>
GenerateSuccess(data) ==
    IF GenerateUpdaterThrows(data)
    THEN /\ Unmount
         /\ UNCHANGED <<password, generated, terminalLines, timer, burst>>
    ELSE LET pass == data.password[1]
         IN  /\ generated' = pass
             /\ password' = pass
             /\ Rearm(pass)
             /\ terminalLines' =
                    terminalLines \o GeneratedLines(pass)
                    \o (IF pass = password THEN <<>>
                        ELSE VisibilityLines(pass, showPassword))
             /\ UNCHANGED <<mounted, intervals>>

GenerateResponse(g, o) ==
    /\ twinLines' = twinLines \o TwinGenerateLines(o)
    /\ basicCore' = BasicGenerateResponse(basicCore, o)
    /\ g \in gens /\ NoTimerDue
    /\ gens' = gens \ {g}
    /\ IF ~mounted
       THEN UNCHANGED <<mounted, intervals, password, generated, terminalLines, timers,
                        timer, cancelled, burst>>
       ELSE IF o.kind # "json" THEN GenerateFailed(o.message)
       ELSE IF HasError(o.data) THEN GenerateFailed(StringText(o.data.error))
       ELSE GenerateSuccess(o.data)
    /\ Step("generate_response", password', IF mounted THEN o ELSE NoOutcome)
    /\ UNCHANGED <<uiVars, telemetryVars, probe>>
    /\ UNCHANGED <<variant, strength, showPassword, isAnalyzing, calls, issued,
                   fired, budget>>

----------------------------------------------------------------------------
(* The other controls of the full variant *)

Tabs == {"analyzer", "threats", "intelligence", "checks"}

\* securityArticles[i].id
ArticleIds == 1..4

\* onClick={() => setActiveTab(tab.id)}
SelectTab(tab) ==
    /\ UNCHANGED twinLines
    /\ UNCHANGED basicCore
    /\ mounted /\ NoTimerDue
    /\ variant = "full"
    /\ budget < MaxUserActions
    /\ tab # activeTab
    /\ activeTab' = tab
    /\ budget' = budget + 1
    /\ Step("tab", password, NoOutcome)
    /\ UNCHANGED <<consoleVars, intervals, selectedArticle, telemetryVars, probe>>

\* onClick={() => setSelectedArticle(article)} and the close button's
\* setSelectedArticle(null), both on the intelligence tab
SelectArticle(a) ==
    /\ UNCHANGED twinLines
    /\ UNCHANGED basicCore
    /\ mounted /\ NoTimerDue
    /\ variant = "full" /\ activeTab = "intelligence"
    /\ budget < MaxUserActions
    /\ a = 0 => selectedArticle # 0
    /\ selectedArticle' = a
    /\ budget' = budget + 1
    /\ Step("article", password, NoOutcome)
    /\ UNCHANGED <<consoleVars, intervals, activeTab, telemetryVars, probe>>

CopiedLine == <<"Password copied to clipboard">>

\* {generated && (<button onClick={() => { navigator.clipboard.writeText(
\* generated); setTerminalLines(prev => [...prev, ...]) }}>)}.  Where the page
\* has no navigator.clipboard the first statement throws and the handler ends.
Copy(clipboard) ==
    /\ twinLines' = IF clipboard THEN Append(twinLines, CopiedLine) ELSE twinLines
    /\ UNCHANGED basicCore
    /\ mounted /\ NoTimerDue
    /\ variant = "full" /\ activeTab = "analyzer"
    /\ Truthy(generated)
    /\ budget < MaxUserActions
    /\ terminalLines' = IF clipboard THEN Append(terminalLines, CopiedLine)
                        ELSE terminalLines
    /\ budget' = budget + 1
    /\ Step("copy", password, NoOutcome)
    /\ UNCHANGED <<variant, mounted, intervals, password, strength, generated, showPassword,
                   isAnalyzing, timers, timer, calls, gens, issued, cancelled,
                   fired, burst, uiVars, telemetryVars, probe>>

\* The component leaves the tree (the root is unmounted, the page goes away).
Teardown ==
    /\ UNCHANGED twinLines
    /\ basicCore' = BasicUnmount(basicCore)
    /\ mounted /\ NoTimerDue
    /\ Unmount
    /\ Step("teardown", password, NoOutcome)
    /\ UNCHANGED <<variant, password, strength, generated, showPassword,
                   terminalLines, isAnalyzing, timer, calls, gens, issued, fired,
                   burst, budget, uiVars, telemetryVars, probe>>

UiNext ==
    \/ \E tab \in Tabs : SelectTab(tab)
    \/ \E a \in {0} \cup ArticleIds : SelectArticle(a)
    \/ \E clipboard \in BOOLEAN : Copy(clipboard)

----------------------------------------------------------------------------
(* The telemetry simulators of the full variant: three setInterval          *)
(* callbacks, each with a functional update of its own state                *)

attackTypes ==
    << [type |-> "Brute Force", origin |-> "Russia", target |-> "Banking", severity |-> "HIGH"],
       [type |-> "Dictionary", origin |-> "China", target |-> "Healthcare", severity |-> "MEDIUM"],
       [type |-> "Rainbow Table", origin |-> "Unknown", target |-> "Government", severity |-> "CRITICAL"],
       [type |-> "Credential Stuffing", origin |-> "Brazil", target |-> "E-commerce", severity |-> "HIGH"],
       [type |-> "Hybrid Attack", origin |-> "Iran", target |-> "Education", severity |-> "MEDIUM"],
       [type |-> "Phishing", origin |-> "Nigeria", target |-> "Finance", severity |-> "HIGH"],
       [type |-> "SQL Injection", origin |-> "Romania", target |-> "Retail", severity |-> "CRITICAL"],
       [type |-> "Keylogger", origin |-> "North Korea", target |-> "Defense", severity |-> "CRITICAL"] >>

\* the table the live-check callback builds, its last entry with a password
\* from generateRandomPassword()
checkTypes(random) ==
    << [password |-> "P@ssw0rd!", result |-> "WEAK", reason |-> "Common pattern", location |-> "USA"],
       [password |-> "john2024", result |-> "CRITICAL", reason |-> "Personal info", location |-> "UK"],
       [password |-> "qwerty123", result |-> "CRITICAL", reason |-> "Keyboard pattern", location |-> "India"],
       [password |-> "iloveyou", result |-> "WEAK", reason |-> "Common phrase", location |-> "Philippines"],
       [password |-> "Tr0ub4dor&3", result |-> "FAIR", reason |-> "Predictable substitution", location |-> "Canada"],
       [password |-> random, result |-> "PERFECT", reason |-> "Strong entropy", location |-> "Germany"] >>

\* What Math.random() gives one callback: the ends of each range.
\* Math.floor(Math.random() * n) is in 0..n-1.
StatsDraws ==
    { [attacks |-> 0, compromised |-> 49, threats |-> 0, weak |-> 999999],
      [attacks |-> 999, compromised |-> 0, threats |-> 499, weak |-> 0] }

AttackDraws ==
    { [pick |-> 0, attempts |-> 0, blocked |-> FALSE],
      [pick |-> Len(attackTypes) - 1, attempts |-> 9999, blocked |-> TRUE] }

LiveDraws ==
    { [pick |-> 0, random |-> "P@ssw0rd!"],
      [pick |-> 5, random |-> "hT7$kQ2!mZ9^bW4&"] }

\* Date.now() in the k-th callback of an interval of the given period,
\* counted from the mount
NowOfMount(k, period) == 0
Now(k, period) == k * period

\* new Date().toLocaleTimeString(): the time of day to the second
toLocaleTimeString(ms) == ms \div 1000

\* [e, ...prev].slice(0, n)
PushFrontUncapped(e, prev, n) == <<e>> \o prev
PushBackCapped(e, prev, n) == SubSeq(Append(prev, e), 1, Min(n, Len(prev) + 1))
PushFront(e, prev, n) == SubSeq(<<e>> \o prev, 1, Min(n, Len(prev) + 1))

TotalTicks == ticks.attack + ticks.stats + ticks.live

\* setGlobalStats(prev => ({ ... })), every 3000 ms
StatsAddsNothing(prev, d) ==
    [attacksToday |-> d.attacks,
     passwordsCompromised |-> d.compromised,
     activeThreats |-> d.threats + 1000,
     weakPasswords |-> d.weak + 5000000]
StatsAccumulatesAll(prev, d) ==
    [attacksToday |-> prev.attacksToday + d.attacks,
     passwordsCompromised |-> prev.passwordsCompromised + d.compromised,
     activeThreats |-> prev.activeThreats + d.threats + 1000,
     weakPasswords |-> prev.weakPasswords + d.weak + 5000000]
StatsUpdate(prev, d) ==
    [attacksToday |-> prev.attacksToday + d.attacks,
     passwordsCompromised |-> prev.passwordsCompromised + d.compromised,
     activeThreats |-> d.threats + 1000,
     weakPasswords |-> d.weak + 5000000]

StatsTick(d) ==
    /\ UNCHANGED twinLines
    /\ UNCHANGED basicCore
    /\ "stats" \in intervals
    /\ TotalTicks < MaxTicks
    /\ globalStats' = StatsUpdate(globalStats, d)
    /\ ticks' = [ticks EXCEPT !.stats = @ + 1]
    /\ Step("stats_tick", password, NoOutcome)
    /\ UNCHANGED <<consoleVars, intervals, budget, uiVars, attackData, liveChecks, probe>>

\* const newAttack = { ...attackTypes[i], id: Date.now(), ... }; the field
\* born is history: the number of the callback that created the event
NewAttack(d, k) ==
    [type |-> attackTypes[d.pick + 1].type,
     origin |-> attackTypes[d.pick + 1].origin,
     target |-> attackTypes[d.pick + 1].target,
     severity |-> attackTypes[d.pick + 1].severity,
     id |-> Now(k, AttackIntervalMs),
     timestamp |-> toLocaleTimeString(Now(k, AttackIntervalMs)),
     attempts |-> d.attempts + 1000,
     blocked |-> d.blocked,
     born |-> k]

\* setAttackData(prev => [newAttack, ...prev].slice(0, 10)), every 2000 ms
AttackTick(d) ==
    /\ UNCHANGED twinLines
    /\ UNCHANGED basicCore
    /\ "attack" \in intervals
    /\ TotalTicks < MaxTicks
    /\ attackData' = PushFront(NewAttack(d, ticks.attack + 1), attackData, AttackCapacity)
    /\ ticks' = [ticks EXCEPT !.attack = @ + 1]
    /\ Step("attack_tick", password, NoOutcome)
    /\ UNCHANGED <<consoleVars, intervals, budget, uiVars, globalStats, liveChecks, probe>>

NewCheck(d, k) ==
    [password |-> checkTypes(d.random)[d.pick + 1].password,
     result |-> checkTypes(d.random)[d.pick + 1].result,
     reason |-> checkTypes(d.random)[d.pick + 1].reason,
     location |-> checkTypes(d.random)[d.pick + 1].location,
     id |-> Now(k, LiveIntervalMs),
     timestamp |-> toLocaleTimeString(Now(k, LiveIntervalMs)),
     born |-> k]

\* setLiveChecks(prev => [newCheck, ...prev].slice(0, 5)), every 4000 ms
LiveTickShared(d) ==
    /\ UNCHANGED twinLines
    /\ UNCHANGED basicCore
    /\ "live" \in intervals
    /\ TotalTicks < MaxTicks
    /\ liveChecks' = PushFront(NewCheck(d, ticks.live + 1), liveChecks, LiveCapacity)
    /\ attackData' = <<>>
    /\ ticks' = [ticks EXCEPT !.live = @ + 1]
    /\ Step("live_tick", password, NoOutcome)
    /\ UNCHANGED <<consoleVars, intervals, budget, uiVars, globalStats, probe>>
LiveTick(d) ==
    /\ UNCHANGED twinLines
    /\ UNCHANGED basicCore
    /\ "live" \in intervals
    /\ TotalTicks < MaxTicks
    /\ liveChecks' = PushFront(NewCheck(d, ticks.live + 1), liveChecks, LiveCapacity)
    /\ ticks' = [ticks EXCEPT !.live = @ + 1]
    /\ Step("live_tick", password, NoOutcome)
    /\ UNCHANGED <<consoleVars, intervals, budget, uiVars, attackData, globalStats, probe>>

TelemetryNext ==
    \/ \E d \in StatsDraws : StatsTick(d)
    \/ \E d \in AttackDraws : AttackTick(d)
    \/ \E d \in LiveDraws : LiveTick(d)

TelemetrySpec == Init /\ [][TelemetryNext]_vars

----------------------------------------------------------------------------
(* The pure functions, applied to scores and texts of every kind *)

ProbeScores == {Undefined} \cup {Some(n) : n \in -1..MaxProbeScore}

UpperChar(c) ==
    IF \E i \in DOMAIN LowerCase : LowerCase[i] = c
    THEN UpperCase[CHOOSE i \in DOMAIN LowerCase : LowerCase[i] = c]
    ELSE c

\* every catalog entry inside a longer text, in capitals and as written, and
\* every catalog entry with its last character missing
ProbeTexts ==
    {Repeat("x", n) : n \in 0..MaxProbeLen} \cup TypedTexts \cup {GeneratedText}
    \cup {<<"x">> \o [i \in DOMAIN w |-> UpperChar(w[i])] \o <<"1">> : w \in weakPasswordDatabase}
    \cup {<<"Z">> \o w : w \in weakPasswordDatabase}
    \cup {SubSeq(w, 1, Len(w) - 1) : w \in weakPasswordDatabase}

ApplyLabel(score) ==
    /\ UNCHANGED twinLines
    /\ UNCHANGED basicCore
    /\ probe' = Probe(score, probe.pwd)
    /\ UNCHANGED <<consoleVars, intervals, budget, last, uiVars, telemetryVars>>

ApplyText(pwd) ==
    /\ UNCHANGED twinLines
    /\ UNCHANGED basicCore
    /\ probe' = Probe(probe.score, pwd)
    /\ UNCHANGED <<consoleVars, intervals, budget, last, uiVars, telemetryVars>>

PureNext ==
    \/ \E score \in ProbeScores : ApplyLabel(score)
    \/ \E pwd \in ProbeTexts : ApplyText(pwd)

PureSpec == Init /\ [][PureNext]_vars

----------------------------------------------------------------------------

Next ==
    \/ \E pwd \in TypedTexts : SetPassword(pwd)
    \/ ToggleShow
    \/ Generate
    \/ Tick
    \/ \E t \in timers : Fire(t)
    \/ \E c \in calls, o \in CheckOutcomes : CheckResponse(c, o)
    \/ \E g \in gens, o \in GenerateOutcomes : GenerateResponse(g, o)
    \/ UiNext

Spec == Init /\ [][Next]_vars

\* The page with its simulators running: the console driven by one text and
\* by the two plainest outcomes of each call, and a few interval callbacks.
JointTicks == MaxTicks \div 5

JointCheckOutcomes ==
    {o \in CheckOutcomes : o.kind = "reject" \/ o.data.score = Some(4)}

JointGenerateOutcomes ==
    {o \in GenerateOutcomes : o.kind = "reject" \/ o.data.password = Some(GeneratedText)}

JointNext ==
    \/ \E pwd \in {<<>>, <<"a">>} : SetPassword(pwd)
    \/ ToggleShow
    \/ Generate
    \/ Tick
    \/ \E t \in timers : Fire(t)
    \/ \E c \in calls, o \in JointCheckOutcomes : CheckResponse(c, o)
    \/ \E g \in gens, o \in JointGenerateOutcomes : GenerateResponse(g, o)
    \/ UiNext
    \/ TotalTicks < JointTicks /\ TelemetryNext
    \/ Teardown

JointSpec == Init /\ [][JointNext]_vars

\* The analysis pipeline alone, with the scheduling the platform gives it: a
\* timer that is due runs, and every issued call resolves or rejects.
NextAnalysis ==
    \/ \E pwd \in TypedTexts : SetPassword(pwd)
    \/ Tick
    \/ \E t \in timers : Fire(t)
    \/ \E c \in calls, o \in CheckOutcomes : CheckResponse(c, o)

FairSpec ==
    /\ Init
    /\ [][NextAnalysis]_vars
    /\ WF_vars(\E t \in timers : Fire(t))
    /\ WF_vars(\E c \in calls, o \in CheckOutcomes : CheckResponse(c, o))

----------------------------------------------------------------------------
(* Steps, as the history variable records them *)

FiredEmpty == last.op = "fire" /\ ~Truthy(password)

\* a response handled by the mounted component
Handled == last.op = "check_response" /\ last.out # NoOutcome

Rejected == Handled /\ last.out.kind = "reject"
Decoded == Handled /\ last.out.kind = "json"
CarriesError == Decoded /\ last.out.data.error # Undefined
NoSuggestions ==
    Decoded /\ last.out.data.error = Undefined /\ last.out.data.suggestions = Undefined
Applied ==
    Decoded /\ last.out.data.error = Undefined /\ last.out.data.suggestions # Undefined

AppendedOne(line) == terminalLines = Append(last.before.terminalLines, line)

\* a generation response handled by the mounted component
GenHandled == last.op = "generate_response" /\ last.out # NoOutcome
GenRejected == GenHandled /\ last.out.kind = "reject"
GenCarriesError == GenHandled /\ last.out.kind = "json" /\ last.out.data.error # Undefined
GenNoPassword ==
    /\ GenHandled /\ last.out.kind = "json"
    /\ last.out.data.error = Undefined /\ last.out.data.password = Undefined
GenApplied ==
    /\ GenHandled /\ last.out.kind = "json"
    /\ last.out.data.error = Undefined /\ last.out.data.password # Undefined

\* the lines the last step appended
Appended ==
    SubSeq(terminalLines, Len(last.before.terminalLines) + 1, Len(terminalLines))

\* every non-empty text the password field or a call has held
HeldTexts ==
    {t \in {password, generated} \cup {issued[i].pwd : i \in DOMAIN issued} : Truthy(t)}

----------------------------------------------------------------------------
(* C1: a burst of password changes, each less than 500 ms after the one     *)
(* before, ending in a non-empty text, issues exactly one check call, and   *)
(* issues it 500 ms after the last change.                                  *)
C1_OneCallPerBurst ==
    /\ burst.calls <= 1
    /\ timers # {} => burst.calls = 0
    /\ (mounted /\ timers = {} /\ Truthy(password)) => burst.calls = 1
    /\ \A i \in DOMAIN issued : issued[i].at = DebounceMs

C1_Witness ==
    /\ last.op = "fire" /\ Truthy(password)
    /\ burst.changes >= 2 /\ burst.calls = 1
    /\ issued[Len(issued)].pwd = password

(* C2: at most one debounce timer is live; a change cancels the pending     *)
(* timer in the step that schedules the new one; a cancelled timer never    *)
(* fires.                                                                   *)
C2_OneLiveTimer ==
    /\ Cardinality(timers) <= 1
    /\ Ids(timers) \subseteq {timer}
    /\ cancelled \cap fired = {}
    /\ cancelled \cap Ids(timers) = {}
    /\ last.op = "change" => Ids(timers) = {timer} /\ (timer - 1) \in cancelled \cup fired

C2_Witness ==
    /\ last.op = "change" /\ (timer - 1) \in cancelled
    /\ fired # {} /\ Cardinality(timers) = 1

(* C3: a debounce firing on an empty password sets strength to              *)
(* {score: 0, feedback: []} and issues no check call.                       *)
C3_EmptyFiringResets ==
    FiredEmpty =>
        /\ strength = EmptyStrength
        /\ Len(issued) = last.before.issued
        /\ isAnalyzing = last.before.isAnalyzing

C3_Witness == FiredEmpty /\ last.before.strength # EmptyStrength

(* C4: whenever the password is empty and its debounce timer has fired,     *)
(* strength is {score: 0, feedback: []}.                                    *)
C4_EmptyTextEmptyStrength ==
    (mounted /\ ~Truthy(password) /\ timers = {}) => strength = EmptyStrength

(* C5: a debounce firing on an empty password appends a log line, in both   *)
(* variants.                                                                *)
C5_EmptyFiringLogs ==
    FiredEmpty => Len(terminalLines) = Len(last.before.terminalLines) + 1

C7_FailureLogged ==
    (Rejected \/ NoSuggestions) =>
        /\ \E m \in {o.message : o \in CheckOutcomes} \cup {"data.suggestions is undefined"} :
               AppendedOne(ConnectionFailedLine(m))
        /\ strength = last.before.strength

(* C8: every analysis cycle clears the Analyzing flag when it ends, on      *)
(* every exit path, and the flag is eventually false once calls resolve.    *)
C8_FlagCleared ==
    /\ [](Handled /\ mounted => ~isAnalyzing)
    /\ (mounted /\ isAnalyzing) ~> (~isAnalyzing \/ ~mounted)

C8_Witness == Rejected /\ last.before.isAnalyzing /\ ~isAnalyzing

(* C9: an applied response makes strength {score: response.score,           *)
(* feedback: response.suggestions}; isSecure is true exactly for score >= 3 *)
(* and score 4 is labelled PERFECT.                                         *)
C9_ResponseApplied ==
    Applied =>
        /\ strength = [score |-> last.out.data.score,
                       feedback |-> last.out.data.suggestions[1]]
        /\ isSecure <=> (last.out.data.score # Undefined /\ last.out.data.score[1] >= 3)
        /\ last.out.data.score = Some(4) => currentStrength = "PERFECT"

C9_Witness ==
    /\ Applied /\ last.out.data.score = Some(4) /\ last.out.data.suggestions = Some(<<>>)
    /\ strength = [score |-> Some(4), feedback |-> <<>>]
    /\ isSecure /\ currentStrength = "PERFECT"

(* C10: strength.score is an integer in 0..4 in every reachable state.      *)
C10_ScoreInRange == strength.score \in {Some(n) : n \in 0..4}

(* C10 as amended: strength.score is the score of the applied response as   *)
(* received, and changes in no other step except a reset to 0.              *)
C10_ScoreAsReceived ==
    /\ Applied => strength.score = last.out.data.score
    /\ ~Applied => strength.score \in {last.before.strength.score, Some(0)}

C10_Witness == Applied /\ strength.score = Some(5)

(* C11: the strength label is table[score] for every score in 0..4, with    *)
(* table = [CRITICAL, WEAK, FAIR, STRONG, PERFECT], and CRITICAL for every  *)
(* score that is not an index of the table.                                 *)
C11_LabelFromTable ==
    /\ probe.score = Some(0) => probe.label = "CRITICAL"
    /\ probe.score = Some(1) => probe.label = "WEAK"
    /\ probe.score = Some(2) => probe.label = "FAIR"
    /\ probe.score = Some(3) => probe.label = "STRONG"
    /\ probe.score = Some(4) => probe.label = "PERFECT"
    /\ probe.score \notin {Some(n) : n \in 0..4} => probe.label = "CRITICAL"

C11_Witness == probe.score = Some(MaxProbeScore) /\ probe.label = "CRITICAL"

(* C12: no line contains, when it is appended, a text the password field   *)
(* or a call has held: the analysis start line shows the password as masked *)
(* characters or as an emptiness indicator, the generation lines show only  *)
(* its length, so the lines are the ones any other text of the same length  *)
(* gives.                                                                   *)
C12_NoPlaintext ==
    /\ \A i \in DOMAIN Appended, t \in HeldTexts : ~includes(Appended[i], t)
    /\ (last.op = "fire" /\ Truthy(last.pwd)) =>
           Appended[1] \in { <<"$ ANALYZING: ">> \o Repeat(Bullet, Len(last.pwd)),
                             <<"$ ANALYZING PASSWORD: ", "****", " -> CONNECTED TO BACKEND">> }
    /\ GenApplied =>
           SubSeq(Appended, 1, Len(GeneratedLines(password))) =
               GeneratedLines(Repeat("x", Len(password)))

C12_Witness ==
    /\ GenApplied /\ password = GeneratedText
    /\ \E i \in DOMAIN issued : issued[i].pwd = <<"A","d","m","i","n","1">>
    /\ \E i \in DOMAIN terminalLines : terminalLines[i] = <<"$ ANALYZING: ">> \o Repeat(Bullet, 6)

(* C13: check responses are applied in the order they arrive and a call in  *)
(* flight is never cancelled: a call leaves the set of calls in flight only *)
(* in the step that handles its response, and every response without error  *)
(* field is applied, whichever call it answers.  So the response of an      *)
(* older cycle can arrive after the response of a newer one and leave its   *)
(* result as the strength of the newer text: C13_Witness.                   *)
C13_ArrivalOrder ==
    [][ /\ \A c \in calls : c \notin calls' =>
               last'.op = "check_response" /\ last'.pwd = c.pwd
        /\ Applied' => strength' = [score |-> last'.out.data.score,
                                    feedback |-> last'.out.data.suggestions[1]]
      ]_vars

C13_Witness ==
    /\ Applied /\ calls = {} /\ timers = {}
    /\ last.before.issued = 2
    /\ issued[1].pwd = last.pwd /\ issued[2].pwd = password /\ last.pwd # password
    /\ strength.score = last.out.data.score /\ strength # last.before.strength

(* C14: a generation that succeeds with result r leaves generated =         *)
(* password = r, cancels the pending debounce timer and arms a new 500 ms   *)
(* timer for r, whatever text the field held before.                        *)
C14_GenerateRearms ==
    [][ GenApplied' =>
            /\ generated' = last'.out.data.password[1]
            /\ password' = last'.out.data.password[1]
            /\ timer' # timer
            /\ timers' = {[id |-> timer', pwd |-> password', elapsed |-> 0]}
            /\ Ids(timers) \subseteq cancelled'
      ]_vars

(* C14 as amended: generated = password = r afterwards; when the field held *)
(* another text the pending timer is cancelled and a new 500 ms timer for r *)
(* is armed, and when it already held r the debounce timer is left as it    *)
(* was: nothing is cancelled, nothing is armed.                             *)
C14_GenerateRearmsOnChange ==
    [][ GenApplied' =>
            /\ generated' = last'.out.data.password[1]
            /\ password' = last'.out.data.password[1]
            /\ password # password' =>
                   /\ timer' # timer
                   /\ timers' = {[id |-> timer', pwd |-> password', elapsed |-> 0]}
                   /\ Ids(timers) \subseteq cancelled'
            /\ password = password' =>
                   /\ timers' = timers /\ timer' = timer /\ cancelled' = cancelled
      ]_vars

C14_Witness ==
    /\ GenApplied /\ password = GeneratedText /\ generated = GeneratedText
    /\ (timer - 1) \in cancelled
    /\ timers = {[id |-> timer, pwd |-> GeneratedText, elapsed |-> 0]}

(* C15: a generation that fails (error field, failed transport, a body that *)
(* cannot be decoded or has no password field) appends one                  *)
(* generation-failure line and leaves generated, password, strength and the *)
(* debounce timer as they were.                                             *)
C15_GenerateFailureLogged ==
    [][ (GenRejected' \/ GenCarriesError' \/ GenNoPassword') =>
            /\ Len(terminalLines') = Len(terminalLines) + 1
            /\ SubSeq(terminalLines', 1, Len(terminalLines)) = terminalLines
            /\ terminalLines'[Len(terminalLines')][1] = "GENERATION FAILED: "
            /\ UNCHANGED <<generated, password, strength, timers, timer>>
      ]_vars

(* C16: the terminal log is append-only: the log before a step is a prefix  *)
(* of the log after it, so the log of any state is a prefix of the log of   *)
(* every later state, also when the lines of an analysis and of a           *)
(* generation interleave.                                                   *)
C16_AppendOnly ==
    /\ Len(last.before.terminalLines) <= Len(terminalLines)
    /\ SubSeq(terminalLines, 1, Len(last.before.terminalLines)) = last.before.terminalLines

C16_Witness ==
    /\ Applied /\ last.pwd = <<"a">>
    /\ \E i, j, k \in DOMAIN terminalLines :
           /\ i < j /\ j < k /\ k < Len(last.before.terminalLines)
           /\ terminalLines[i] = GeneratingLine
           /\ terminalLines[j] = AnalyzingLine(<<"a">>)
           /\ terminalLines[k] = GeneratedLines(GeneratedText)[1]

LogFrameOps == {"toggle", "copy", "tab", "article", "tick",
                "stats_tick", "attack_tick", "live_tick"}

(* C17: only the analysis and the generation controller append to the       *)
(* terminal log: the show/hide toggle, the copy button, tab and article     *)
(* selection and the telemetry callbacks leave it unchanged.                *)
C17_OnlyControllersAppend ==
    last.op \in LogFrameOps => terminalLines = last.before.terminalLines

(* C17 as amended: besides the two controllers, the copy button of the full *)
(* variant appends one line, and the visibility effect of the basic variant *)
(* appends one line on a toggle or a change of the text while the text is   *)
(* not empty; tab and article selection, the telemetry callbacks, the       *)
(* passing of time and the toggle of the full variant leave the log         *)
(* unchanged.                                                               *)
C17_WhoAppends ==
    /\ last.op \in LogFrameOps \ {"toggle", "copy"} =>
           terminalLines = last.before.terminalLines
    /\ last.op \in {"toggle", "change"} =>
           Appended = IF variant = "basic" /\ Truthy(password)
                      THEN << <<"$ VISIBILITY: ",
                                IF showPassword THEN "ENABLED" ELSE "ENCRYPTED">> >>
                      ELSE <<>>
    /\ last.op = "copy" =>
           /\ variant = "full"
           /\ Appended \in {<<>>, << <<"Password copied to clipboard">> >>}

C17_Witness ==
    /\ last.op = "copy" /\ Len(Appended) = 1
    /\ ticks.attack > 0

(* C18: the buffer of attack events never holds more than 10 events, the    *)
(* buffer of live checks never more than 5, and each is ordered newest      *)
(* first: of two positions the earlier holds the event created later.       *)
C18_BuffersBoundedNewestFirst ==
    /\ Len(attackData) <= 10
    /\ Len(liveChecks) <= 5
    /\ \A i, j \in DOMAIN attackData : i < j => attackData[i].born > attackData[j].born
    /\ \A i, j \in DOMAIN liveChecks : i < j => liveChecks[i].born > liveChecks[j].born

C18_Witness ==
    /\ ticks.attack > AttackCapacity /\ Len(attackData) = AttackCapacity
    /\ attackData[1].born = ticks.attack

(* C19: attacksToday and passwordsCompromised start at 0 and never          *)
(* decrease: each callback of the statistics interval adds an integer in    *)
(* 0..999 to the first and an integer in 0..49 to the second.               *)
C19_CountersGrow ==
    /\ [](ticks.stats = 0 =>
              globalStats.attacksToday = 0 /\ globalStats.passwordsCompromised = 0)
    /\ [][ /\ globalStats'.attacksToday - globalStats.attacksToday \in 0..999
           /\ globalStats'.passwordsCompromised - globalStats.passwordsCompromised \in 0..49
         ]_vars

C19_Witness ==
    /\ last.op = "stats_tick" /\ ticks.stats >= 2
    /\ globalStats.attacksToday = 999 /\ globalStats.passwordsCompromised = 49

(* C20: the three simulators share no state with the console or with each   *)
(* other: a callback of one changes only its own statistics or buffer, and  *)
(* leaves password, strength, generated, the Analyzing flag, the terminal   *)
(* log, the debounce timer and the state of the other two unchanged; no     *)
(* other step changes the state of a simulator.                             *)
C20_SimulatorsIsolated ==
    [][ /\ last'.op \in {"stats_tick", "attack_tick", "live_tick"} =>
               UNCHANGED <<password, strength, generated, isAnalyzing,
                           terminalLines, timers, timer, calls, gens>>
        /\ last'.op = "stats_tick" => UNCHANGED <<attackData, liveChecks>>
        /\ last'.op = "attack_tick" => UNCHANGED <<globalStats, liveChecks>>
        /\ last'.op = "live_tick" => UNCHANGED <<globalStats, attackData>>
        /\ last'.op \notin {"stats_tick", "attack_tick", "live_tick"} =>
               UNCHANGED <<globalStats, attackData, liveChecks>>
      ]_vars

C20_Witness ==
    /\ last.op = "live_tick" /\ attackData # <<>> /\ liveChecks # <<>>
    /\ isAnalyzing /\ calls # {} /\ terminalLines # <<>>

(* C21: teardown cancels the debounce timer and the three telemetry         *)
(* intervals together: once the component is gone no timer and no interval  *)
(* is live, and the only steps still taken are arrivals of responses, which *)
(* fire no debounce callback, issue no check call and run no telemetry      *)
(* callback.                                                                *)
C21_TeardownCancelsAll ==
    ~mounted =>
        /\ timers = {} /\ intervals = {}
        /\ last.op \in {"teardown", "check_response", "generate_response"}
        /\ Len(issued) = last.before.issued

C21_Witness ==
    /\ ~mounted /\ variant = "full"
    /\ last.op = "check_response" /\ last.out = NoOutcome
    /\ timer \in cancelled /\ timer \notin fired
    /\ ticks.attack > 0 /\ ticks.live > 0

\* the phases of the analysis controller, read off the state
Phases ==
    {ph \in {"Idle", "Debouncing", "Analyzing", "Complete", "Failed"} :
        \/ ph = "Debouncing" /\ timers # {}
        \/ ph = "Analyzing" /\ calls # {}
        \/ ph = "Complete" /\ timers = {} /\ calls = {} /\ Applied
        \/ ph = "Failed" /\ timers = {} /\ calls = {} /\ Handled /\ ~Applied
        \/ ph = "Idle" /\ timers = {} /\ calls = {} /\ ~Handled}

(* C22: the analysis controller is in exactly one of the phases Idle,       *)
(* Debouncing, Analyzing, Complete, Failed in every reachable state.        *)
C22_OnePhase == Cardinality(Phases) = 1

(* C22 as amended: the phases are not exclusive, a debounce timer can be    *)
(* pending while calls are in flight.  Each cycle taken alone keeps the     *)
(* order: a check call is issued only by a debounce firing on a non-empty   *)
(* text, a firing on the empty text issues none, a handled response ends    *)
(* its cycle in exactly one way (applied; error field; rejected; malformed) *)
(* and at most one timer is pending.                                        *)
C22_CyclesInOrder ==
    /\ Cardinality(timers) <= 1
    /\ Len(issued) # last.before.issued =>
           /\ last.op = "fire" /\ Truthy(last.pwd)
           /\ Len(issued) = last.before.issued + 1
    /\ last.op = "fire" /\ ~Truthy(last.pwd) => Len(issued) = last.before.issued
    /\ last.op = "fire" /\ Truthy(last.pwd) => Len(issued) = last.before.issued + 1
    /\ Handled =>
           Cardinality({k \in 1..4 : \/ k = 1 /\ Applied
                                     \/ k = 2 /\ CarriesError
                                     \/ k = 3 /\ Rejected
                                     \/ k = 4 /\ NoSuggestions}) = 1

C22_Witness ==
    /\ last.op = "change" /\ mounted /\ isAnalyzing
    /\ Phases = {"Debouncing", "Analyzing"}

\* the length of the text the estimate was applied to
ProbedLength == Len(probe.pwd)

(* C23: the crack-time estimate is "Instant" for the empty password and     *)
(* otherwise, by the length L: "<1 second" for L < 6, "<1 minute" for       *)
(* 6 <= L < 8, "<1 hour" for 8 <= L < 10, "<1 day" for 10 <= L < 12,        *)
(* "<1 year" for 12 <= L < 14, ">100 years" for L >= 14.                    *)
C23_CrackTimeBuckets ==
    /\ ProbedLength = 0 => probe.crackTime = "Instant"
    /\ ProbedLength \in 1..5 => probe.crackTime = "<1 second"
    /\ ProbedLength \in 6..7 => probe.crackTime = "<1 minute"
    /\ ProbedLength \in 8..9 => probe.crackTime = "<1 hour"
    /\ ProbedLength \in 10..11 => probe.crackTime = "<1 day"
    /\ ProbedLength \in 12..13 => probe.crackTime = "<1 year"
    /\ ProbedLength >= 14 => probe.crackTime = ">100 years"

(* C23 as amended: the same buckets, with the labels as the function        *)
(* returns them, a space after the comparison sign: "< 1 second",           *)
(* "< 1 minute", "< 1 hour", "< 1 day", "< 1 year", "> 100 years".          *)
C23_CrackTimeBucketsSpaced ==
    /\ ProbedLength = 0 => probe.crackTime = "Instant"
    /\ ProbedLength \in 1..5 => probe.crackTime = "< 1 second"
    /\ ProbedLength \in 6..7 => probe.crackTime = "< 1 minute"
    /\ ProbedLength \in 8..9 => probe.crackTime = "< 1 hour"
    /\ ProbedLength \in 10..11 => probe.crackTime = "< 1 day"
    /\ ProbedLength \in 12..13 => probe.crackTime = "< 1 year"
    /\ ProbedLength >= 14 => probe.crackTime = "> 100 years"

C23_Witness == ProbedLength = 14 /\ probe.crackTime = "> 100 years"

(* C24: the weak-pattern precheck is true exactly when some entry of the    *)
(* catalog occurs at some position of the password, letters compared        *)
(* without regard to case, and false for every password that contains no    *)
(* entry.                                                                   *)
C24_WeakIffCatalogSubstring ==
    /\ probe.weak <=>
           \E w \in weakPasswordDatabase, k \in 0..Len(probe.pwd) :
               /\ k + Len(w) <= Len(probe.pwd)
               /\ \A i \in DOMAIN w :
                      probe.pwd[k + i] \in {w[i], UpperChar(w[i])}
    /\ probe.pwd = <<"x","A","D","M","I","N","1">> => probe.weak
    /\ probe.pwd = <<"A","d","m","i","n","1">> => probe.weak
    /\ probe.pwd = <<"a","d","m","i">> => ~probe.weak
    /\ probe.pwd = GeneratedText => ~probe.weak
    /\ probe.pwd = <<>> => ~probe.weak

C24_Witness == probe.pwd = <<"x","D","R","A","G","O","N","1">> /\ probe.weak

\* the last step started a cycle for a text of the catalog
\* the texts the field can hold that match the catalog
WeakTexts ==
    {pwd \in TypedTexts \cup {b.password[1] : b \in {d \in GenerateBodies : d.password # Undefined}} :
        isWeak(pwd)}

FiredWeak == last.op = "fire" /\ Truthy(last.pwd) /\ last.pwd \in WeakTexts

WarningLine == <<"WARNING: Password found in breach database!">>

(* C25: in a cycle whose password matches the catalog one warning line is   *)
(* appended right after the start line, before the result of the cycle is   *)
(* applied, and the call is issued with the same password and its result    *)
(* applied as in a cycle without a match.                                   *)
C25_WarningNeverBlocks ==
    /\ FiredWeak => Len(Appended) = 2 /\ Appended[2] = WarningLine
    /\ (last.op = "fire" /\ Truthy(last.pwd)) =>
           /\ [id |-> Len(issued), pwd |-> last.pwd] \in calls
           /\ issued[Len(issued)].pwd = last.pwd
    /\ Applied => strength = [score |-> last.out.data.score,
                              feedback |-> last.out.data.suggestions[1]]

(* C25 as amended: the same, the warning line being appended by the full    *)
(* variant only; the basic variant has no precheck and appends the start    *)
(* line alone.                                                              *)
C25_WarningNeverBlocksFull ==
    /\ FiredWeak =>
           Appended = IF variant = "full"
                      THEN <<AnalyzingLine(last.pwd), WarningLine>>
                      ELSE <<AnalyzingLine(last.pwd)>>
    /\ (last.op = "fire" /\ Truthy(last.pwd) /\ last.pwd \notin WeakTexts) =>
           Appended = <<AnalyzingLine(last.pwd)>>
    /\ (last.op = "fire" /\ Truthy(last.pwd)) =>
           /\ [id |-> Len(issued), pwd |-> last.pwd] \in calls
           /\ issued[Len(issued)].pwd = last.pwd
    /\ (Handled /\ variant = "full" /\ last.pwd \in WeakTexts) =>
           \E i \in 1..(Len(last.before.terminalLines) - 1) :
               /\ terminalLines[i] = AnalyzingLine(last.pwd)
               /\ terminalLines[i + 1] = WarningLine
    /\ Applied => strength = [score |-> last.out.data.score,
                              feedback |-> last.out.data.suggestions[1]]

C25_Witness ==
    /\ Applied /\ variant = "full" /\ last.pwd \in WeakTexts
    /\ strength.score = Some(4)
    /\ terminalLines[Len(last.before.terminalLines)] = WarningLine

\* the last step ended a cycle in a failure
CycleFailed ==
    \/ Rejected \/ CarriesError \/ NoSuggestions
    \/ GenRejected \/ GenCarriesError \/ GenNoPassword

(* C26: no failure halts the controller: after a cycle that ended in a      *)
(* remote error, a failed transport or a malformed response the component   *)
(* still takes changes of the text; a change arms the debounce timer and    *)
(* its firing on a non-empty text issues a check call.                      *)
C26_NoFailureHalts ==
    /\ CycleFailed => mounted
    /\ last.op = "change" =>
           timers = {[id |-> timer, pwd |-> password, elapsed |-> 0]}
    /\ (last.op = "fire" /\ Truthy(last.pwd)) =>
           [id |-> Len(issued), pwd |-> last.pwd] \in calls

----------------------------------------------------------------------------
\* C27: the two variants agree on the core state.  Driven by the same changes,
\* generate actions, firings and outcomes, the component of part_000 and the
\* component of PasswordStrengthUI.jsx hold the same password, generated
\* password, strength and isAnalyzing flag after every step (and are mounted
\* or unmounted together).
C27_VariantsAgree ==
    /\ basicCore.mounted = mounted
    /\ basicCore.password = password
    /\ basicCore.generated = generated
    /\ basicCore.strength = strength
    /\ basicCore.isAnalyzing = isAnalyzing
    /\ basicCore.pending = Undefined <=> timers = {}
    /\ \A t \in timers : basicCore.pending = Some(t.pwd)

\* the full variant after a generated password was taken over and analysed
C27_Witness ==
    /\ variant = "full"
    /\ Applied
    /\ Truthy(generated) /\ password = generated
    /\ basicCore.strength = strength /\ strength # EmptyStrength

----------------------------------------------------------------------------
\* the suggestions of the response applied last, and how many of them
Suggested == last.out.data.suggestions[1]
Shown == Min(Len(Suggested), 3)

\* the lines after the first n appended ones are the first min(k, 3)
\* suggestions, in the order of the response, and the block is the log's end
SuggestionsFollow(n) ==
    /\ Len(Appended) = n + Shown
    /\ \A i \in 1..Shown : Appended[n + i][Len(Appended[n + i])] = Suggested[i]
    /\ terminalLines = last.before.terminalLines \o Appended

\* C28: when a successful check response with k suggestions is applied, the
\* completion, crack-time and protection-level lines are appended, followed by
\* exactly min(k, 3) suggestion lines, the first min(k, 3) in the response's
\* order, as one contiguous block.  (Violated: the basic variant appends a
\* completion and a threat-level line, no crack-time or protection line.)
C28_ThreeSuggestionLines ==
    Applied =>
        /\ Appended[1][1] = "ANALYSIS COMPLETE: "
        /\ Appended[2][1] = "Crack Time: "
        /\ Appended[3][1] = "Protection Level: "
        /\ SuggestionsFollow(3)

\* C28 as the code has it: the full variant appends the completion, crack-time
\* and protection-level lines, the basic variant the completion and
\* threat-level lines; either is followed by exactly min(k, 3) suggestion
\* lines in the response's order, all in one contiguous block at the log's end.
C28_SuggestionLinesByVariant ==
    Applied =>
        /\ Appended[1][1] = "ANALYSIS COMPLETE: "
        /\ IF variant = "full"
           THEN /\ Appended[2] = <<"Crack Time: ", calculateCrackTime(last.pwd)>>
                /\ Appended[3][1] = "Protection Level: "
                /\ SuggestionsFollow(3)
           ELSE /\ Appended[2][1] = "$ THREAT LEVEL: "
                /\ SuggestionsFollow(2)

\* a response with four suggestions applied: three lines for them
C28_Witness ==
    /\ Applied /\ variant = "full"
    /\ Len(Suggested) = 4 /\ Len(Appended) = 6
    /\ Appended[6] = <<"-> ", "make it longer">>

----------------------------------------------------------------------------
\* the debounce callback ran last and issued a call
FiredCall == last.op = "fire" /\ Truthy(last.pwd)

\* C29: the check call issued when the debounce timer fires carries the
\* current password text, the one the last change set, never an earlier text
\* of the burst; the call for "a" carries "a", and the crack-time line of its
\* result shows the label of a one-character text.
C29_CallCarriesCurrentText ==
    /\ FiredCall =>
          /\ Len(issued) = last.before.issued + 1
          /\ issued[Len(issued)].pwd = password
          /\ [id |-> Len(issued), pwd |-> password] \in calls
    /\ FiredCall /\ password = <<"a">> => issued[Len(issued)].pwd = <<"a">>
    /\ Applied /\ variant = "full" /\ last.pwd = <<"a">> =>
          Appended[2] = <<"Crack Time: ", "< 1 second">>

\* a burst of two changes ending in "a": the call carries "a"
C29_Witness ==
    /\ FiredCall
    /\ burst.changes >= 2
    /\ password = <<"a">>
    /\ issued[Len(issued)].pwd = <<"a">>

----------------------------------------------------------------------------
\* the calls of either kind the last step issued
ChecksIssued == Len(issued) - last.before.issued
GeneratesIssued ==
    Cardinality(gens) - last.before.gens
    + (IF last.op = "generate_response" THEN 1 ELSE 0)

\* C30: no automatic retries.  A debounce firing issues at most one check call
\* (one for a non-empty text, none for the empty one), a click on generate
\* exactly one generate call, and no other step issues any: the handling of a
\* response, failed or not, issues nothing.  Every check call belongs to a
\* timer of its own, armed by a change of the password text, so there are
\* never more check calls than changes.
C30_NoRetries ==
    /\ last.op = "fire" => ChecksIssued = (IF Truthy(last.pwd) THEN 1 ELSE 0)
    /\ last.op # "fire" => ChecksIssued = 0
    /\ last.op = "generate" => GeneratesIssued = 1 /\ budget \in gens
    /\ last.op # "generate" => GeneratesIssued = 0
    /\ \A i, j \in DOMAIN issued : issued[i].handle = issued[j].handle => i = j
    /\ \A i \in DOMAIN issued : issued[i].handle \in 2..timer
    /\ Len(issued) <= timer - 1

\* a check call failed, and nothing was issued in its place
C30_Witness ==
    /\ Rejected
    /\ Len(issued) = 1 /\ calls = {} /\ timers = {}

----------------------------------------------------------------------------
----------------------------------------------------------------------------
\* C32: a callback of the attack feed on a buffer B leaves the new event
\* followed by the first min(|B|, 9) events of B in their order, a callback of
\* the live-check feed the new event followed by the first min(|B|, 4) events
\* of B: past capacity exactly one event leaves, the oldest, and the others
\* keep their order.
C32_EvictsOldest ==
    [][ /\ ticks'.attack # ticks.attack =>
              /\ attackData'[1].born = ticks'.attack
              /\ SubSeq(attackData', 2, Len(attackData'))
                     = SubSeq(attackData, 1, Min(Len(attackData), 9))
        /\ ticks'.live # ticks.live =>
              /\ liveChecks'[1].born = ticks'.live
              /\ SubSeq(liveChecks', 2, Len(liveChecks'))
                     = SubSeq(liveChecks, 1, Min(Len(liveChecks), 4))
      ]_vars

\* the eleventh attack event has pushed the first one out
C32_Witness ==
    /\ last.op = "attack_tick"
    /\ ticks.attack = AttackCapacity + 1
    /\ Len(attackData) = AttackCapacity
    /\ attackData[AttackCapacity].born = 2

----------------------------------------------------------------------------
\* C33: the four statistics are non-negative integers in every state; once
\* the statistics callback has run, activeThreats is in 1000..1499 and
\* weakPasswords in 5000000..5999999, whatever they were before, so either
\* can be lower after a callback than before it.
C33_StatsRanges ==
    /\ \A f \in DOMAIN globalStats : globalStats[f] \in Nat
    /\ ticks.stats = 0 =>
           globalStats.activeThreats = 0 /\ globalStats.weakPasswords = 0
    /\ ticks.stats > 0 =>
           /\ globalStats.activeThreats \in 1000..1499
           /\ globalStats.weakPasswords \in 5000000..5999999

\* Two callbacks, the first drawing the top of the activeThreats range and the
\* second its bottom (the sums tell that each draw was taken once):
\* activeThreats went from 1499 down to 1000.
C33_Witness ==
    /\ last.op = "stats_tick" /\ ticks.stats = 2
    /\ globalStats.attacksToday = 999 /\ globalStats.passwordsCompromised = 49
    /\ globalStats.activeThreats = 1000

----------------------------------------------------------------------------
----------------------------------------------------------------------------
\* C35: the Analyzing flag is true in every state in which a check call is in
\* flight; when two cycles overlap, the end of one does not clear the flag
\* while the call of the other is pending.  (Violated: the flag is one
\* boolean, and the finally block of each cycle sets it to false.)
C35_FlagWhileInFlight == mounted /\ calls # {} => isAnalyzing

----------------------------------------------------------------------------
\* C36: generate is never started while the Analyzing flag is true, the
\* button being disabled then; it can be started while a debounce timer is
\* pending and while an earlier generate call is in flight (C36_Witness).
C36_GenerateDisabledWhileAnalyzing ==
    last.op = "generate" =>
        /\ ~last.before.isAnalyzing
        /\ isAnalyzing = last.before.isAnalyzing
        /\ budget \in gens

\* a second generate started with the first one in flight and the timer of
\* the initial text pending
C36_Witness ==
    /\ last.op = "generate"
    /\ last.before.gens = 1 /\ Cardinality(gens) = 2
    /\ timers # {}

----------------------------------------------------------------------------
\* the first of two overlapping generate calls was answered and applied last
FirstOfTwo == GenApplied /\ last.before.gens = 2

\* C37: when two generate calls overlap, both successful responses are
\* applied in the order they arrive, each setting generated and password to
\* its own result and re-arming the debounce timer, so that afterwards
\* generated = password = the result that arrived last and only that result
\* is sent to the check call.  (Violated: a response whose result is the text
\* the field already holds, such as the second of two equal results, does not
\* re-arm the timer.)
C37_OverlappingGenerates ==
    [][ (Cardinality(gens) = 2 \/ FirstOfTwo) /\ GenApplied' =>
            /\ generated' = last'.out.data.password[1]
            /\ password' = last'.out.data.password[1]
            /\ timer' = timer + 1
            /\ timers' = {[id |-> timer', pwd |-> password', elapsed |-> 0]}
      ]_vars

\* C37 as the code has it: every successful generate response is applied when
\* it arrives, whether or not another generate call is in flight or was
\* answered before it, and sets generated and password to its own result; it
\* re-arms the debounce timer when that result differs from the text the
\* field held and leaves the timer alone when it is the same.  Either way
\* every pending timer then carries the result applied last, and the step
\* itself issues no check call.
C37_GeneratesInArrivalOrder ==
    [][ GenApplied' =>
            /\ generated' = last'.out.data.password[1]
            /\ password' = last'.out.data.password[1]
            /\ password' # password =>
                   /\ timer' = timer + 1
                   /\ timers' = {[id |-> timer', pwd |-> password', elapsed |-> 0]}
            /\ password' = password => timers' = timers /\ timer' = timer
            /\ \A t \in timers' : t.pwd = last'.out.data.password[1]
            /\ calls' = calls /\ issued' = issued
      ]_vars

\* two generate calls in flight, and the first answer applied
C37_Witness ==
    /\ FirstOfTwo
    /\ Cardinality(gens) = 1
    /\ generated = password /\ Truthy(generated)
    /\ timers = {[id |-> timer, pwd |-> generated, elapsed |-> 0]}

----------------------------------------------------------------------------
\* the first fragment of the lines that end a cycle
OutcomeHeads == {"ANALYSIS COMPLETE: ", "ANALYSIS FAILED: ", "CONNECTION FAILED: "}

\* how many of the lines appended last begin an outcome
OutcomesAppended ==
    Cardinality({i \in DOMAIN Appended : Appended[i][1] \in OutcomeHeads})

\* C38: every analysis cycle that appended its start line appends exactly one
\* outcome when its call ends, the completion block or one analysis-failed
\* line or one connection-failed line, after its start line; no cycle appends
\* two outcomes or none.  (Violated: a response without error field and
\* without suggestions appends nothing.)
C38_OneOutcomePerCycle ==
    last.op = "check_response" =>
        /\ OutcomesAppended = 1
        /\ Appended[1][1] \in OutcomeHeads
        /\ \E i \in DOMAIN last.before.terminalLines :
               last.before.terminalLines[i] = AnalyzingLine(last.pwd)

----------------------------------------------------------------------------
\* C39: right after the mount, before any user action, a debounce timer is
\* armed for the initial empty text; when it fires it sets strength to
\* {score: 0, feedback: []} and issues no check call, so every check call,
\* the first one included, belongs to a timer armed by a change of the text.
C39_StartupTimer ==
    /\ last.op = "mount" =>
           timers = {[id |-> 1, pwd |-> <<>>, elapsed |-> 0]} /\ issued = <<>>
    /\ timer = 1 =>
           /\ password = <<>> /\ issued = <<>> /\ calls = {}
           /\ \A t \in timers : t.id = 1 /\ t.pwd = <<>>
    /\ last.op = "fire" /\ timer = 1 =>
           /\ last.pwd = <<>> /\ fired = {1} /\ timers = {}
           /\ strength = EmptyStrength
           /\ ~isAnalyzing
    /\ \A i \in DOMAIN issued : issued[i].handle >= 2 /\ Truthy(issued[i].pwd)

\* the timer of the mount has fired and nobody has touched the page
C39_Witness ==
    /\ last.op = "fire" /\ timer = 1 /\ budget = 0
    /\ fired = {1} /\ issued = <<>>
    /\ strength = EmptyStrength

----------------------------------------------------------------------------
\* the log without the warning lines of the weak-pattern precheck
WithoutWarnings(lines) == SelectSeq(lines, LAMBDA l : l # WarningLine)

\* C40: the terminal log depends on the password only through its length: two
\* runs with the same events and the same responses whose texts differ but
\* have equal lengths at every step produce the same log.  (Violated: the
\* full variant appends the warning line for a text that matches the catalog
\* and not for another text of the same length.)
C40_LogDependsOnLength == terminalLines = twinLines

\* C40 as the code has it: apart from the warning lines of the precheck, which
\* tell whether the text matches the catalog, the two logs are the same.
C40_LogDependsOnLengthAndMatch ==
    /\ WithoutWarnings(terminalLines) = twinLines
    /\ variant = "basic" => terminalLines = twinLines

\* a cycle for a six-character text in both runs: the same start line and the
\* same crack-time line
C40_Witness ==
    /\ Applied /\ variant = "full"
    /\ Len(last.pwd) = 6 /\ Twin(last.pwd) # last.pwd
    /\ Appended[2] = <<"Crack Time: ", "< 1 minute">>
    /\ twinLines[Len(twinLines) - Len(Appended) + 2] = Appended[2]
    /\ \E i \in DOMAIN twinLines : twinLines[i] = <<"$ ANALYZING: ">> \o Repeat(Bullet, 6)

====
